---- MODULE Spec2Model ----
(***************************************************************************)
(* TeachWise: the Gemini-backed scenario/evaluation service                *)
(* (src/simple_app.py) and its two entry points, the FastAPI routes        *)
(* (src/simple_app.py) and the serverless HTTP handler (src/api/index.py). *)
(*                                                                         *)
(* One request is in flight at a time.  An invocation is split at the      *)
(* only suspending operation, the call model.generate_content(prompt):     *)
(*   Invoke(r)        everything up to and including the issue of the call *)
(*   GatewayReply(g)  everything from the reply to the response            *)
(*   Return           the response has been delivered                      *)
(***************************************************************************)
EXTENDS Integers, Sequences, FiniteSets, TLC

VARIABLES
    env,                 \* names of the API-key environment variables that are set
    model,               \* gemini_service.model
    TEACHWISE_AVAILABLE, \* api/index.py: did "from simple_app import gemini_service" work
    calls,               \* number of model.generate_content calls made so far
    pc,                  \* "idle" | "calling" | "done"
    req,                 \* the request in flight
    args,                \* the arguments the entry point passed to the service
    prompt,              \* the prompt handed to the gateway
    callsThis,           \* generate_content calls made by the invocation in flight
    resp,                \* the response of the invocation in flight
    writes               \* number of responses produced by the invocation in flight

vars == <<env, model, TEACHWISE_AVAILABLE, calls, pc, req, args, prompt,
          callsThis, resp, writes>>

(***************************************************************************)
(* Bounds                                                                  *)
(***************************************************************************)
MaxCalls == 2       \* generate_content calls in one behaviour
MaxHistory == 2     \* chat history entries in a request of the main specification

(***************************************************************************)
(* Python values                                                           *)
(***************************************************************************)
None == "None"          \* Python None / JSON null
Absent == "Absent"      \* key not present in the JSON body
Handle == "GenerativeModel"

EmptyDict == <<>>

\* dict.get(key, default)
Get(d, k, default) == IF k \in DOMAIN d THEN d[k] ELSE default

\* bool(x) is False for None and for the empty string
Falsy(x) == x \in {None, ""}

\* str(b).lower() for a bool b
StrLower(b) == IF b THEN "true" ELSE "false"

(***************************************************************************)
(* Exceptions                                                              *)
(***************************************************************************)
NoExc == [type |-> "", status_code |-> 0, detail |-> ""]

HTTPException(code, detail) ==
    [type |-> "HTTPException", status_code |-> code, detail |-> detail]

Raise(type, detail) == [type |-> type, status_code |-> 0, detail |-> detail]

(***************************************************************************)
(* Text: a string is a sequence of one-character strings                   *)
(***************************************************************************)
Whitespace == {" ", "\n", "\t"}

RECURSIVE LStrip(_)
LStrip(t) == IF t # <<>> /\ Head(t) \in Whitespace THEN LStrip(Tail(t)) ELSE t

RECURSIVE RStrip(_)
RStrip(t) ==
    IF t # <<>> /\ t[Len(t)] \in Whitespace
    THEN RStrip(SubSeq(t, 1, Len(t) - 1))
    ELSE t

\* str.strip()
Strip(t) == RStrip(LStrip(t))

StartsWith(t, p) == Len(t) >= Len(p) /\ SubSeq(t, 1, Len(p)) = p

EndsWith(t, s) == Len(t) >= Len(s) /\ SubSeq(t, Len(t) - Len(s) + 1, Len(t)) = s

\* the backquote character (a literal backquote cannot appear in a TLA+ string)
Backquote == "BQ"

Fence == <<Backquote, Backquote, Backquote>>
FenceJson == Fence \o <<"j", "s", "o", "n">>

\* faulty variant of CleanJsonResponse: the generic fence is tested before the
\* json-tagged one
CleanJsonResponseGenericFirst(text) ==
    LET t1 == Strip(text)
        t2 == IF StartsWith(t1, Fence) THEN SubSeq(t1, 4, Len(t1))
              ELSE IF StartsWith(t1, FenceJson) THEN SubSeq(t1, 8, Len(t1))
              ELSE t1
        t3 == IF EndsWith(t2, Fence) THEN SubSeq(t2, 1, Len(t2) - 3) ELSE t2
    IN  Strip(t3)

RECURSIVE StripTicks(_)
StripTicks(t) ==
    IF t # <<>> /\ Head(t) \in Whitespace \cup {Backquote} THEN StripTicks(Tail(t))
    ELSE IF t # <<>> /\ t[Len(t)] \in Whitespace \cup {Backquote}
    THEN StripTicks(SubSeq(t, 1, Len(t) - 1))
    ELSE t

\* faulty variant of CleanJsonResponse: backquotes are stripped like whitespace
CleanJsonResponseStripTicks(text) == StripTicks(text)

RECURSIVE DropTrailingFences(_)
DropTrailingFences(t) ==
    IF EndsWith(t, Fence) THEN DropTrailingFences(SubSeq(t, 1, Len(t) - 3)) ELSE t

\* faulty variant of CleanJsonResponse: trailing fences are removed in a loop
CleanJsonResponseLoop(text) ==
    LET t1 == Strip(text)
        t2 == IF StartsWith(t1, FenceJson) THEN SubSeq(t1, 8, Len(t1))
              ELSE IF StartsWith(t1, Fence) THEN SubSeq(t1, 4, Len(t1))
              ELSE t1
    IN  Strip(DropTrailingFences(t2))

\* GeminiService._clean_json_response
CleanJsonResponse(text) ==
    LET t1 == Strip(text)
        t2 == IF StartsWith(t1, FenceJson) THEN SubSeq(t1, 8, Len(t1))
              ELSE IF StartsWith(t1, Fence) THEN SubSeq(t1, 4, Len(t1))
              ELSE t1
        t3 == IF EndsWith(t2, Fence) THEN SubSeq(t2, 1, Len(t2) - 3) ELSE t2
    IN  Strip(t3)

\* the JSON texts of the model: {"a":1} and 7
JsonObjectText == <<"{", "\"", "a", "\"", ":", "1", "}">>
JsonNumberText == <<"7">>

\* the JSON text of a scenario as the model writes it, cut down to the two
\* fields the data model relates: a list of two options and an index.  A key
\* is one element of the text.
IndexTexts == <<"0", "1", "2">>

ScenarioText(i) ==
    <<"{", "misconceptionOptions", ":", "[", "A", ",", "B", "]", ",",
      "correctMisconceptionIndex", ":", IndexTexts[i + 1], "}">>

ScenarioTexts == {ScenarioText(i) : i \in 0..(Len(IndexTexts) - 1)}

ValidJsonTexts == {JsonObjectText, JsonNumberText} \cup ScenarioTexts

\* json.loads: the parsed value is identified with its canonical text
JsonLoadsOk(t) == t \in ValidJsonTexts

\* top-level keys of a parsed JSON value
TopKeys(t) ==
    IF t = JsonObjectText THEN {"a"}
    ELSE IF t \in ScenarioTexts THEN {"misconceptionOptions", "correctMisconceptionIndex"}
    ELSE {}

\* the two fields of a parsed scenario
MisconceptionOptionsOf(t) == <<t[5], t[7]>>
CorrectMisconceptionIndexOf(t) == CHOOSE i \in 0..(Len(IndexTexts) - 1) : IndexTexts[i + 1] = t[12]

(***************************************************************************)
(* Prompts.  A prompt is kept as the sequence of its blocks (the language  *)
(* directive block, when there is one, then the template) and the values   *)
(* substituted into the template that the properties speak about.          *)
(***************************************************************************)
NoPrompt ==
    [parts |-> <<>>, persona_traits |-> <<>>,
     confidence |-> "", persistence |-> "", metacognitive |-> "",
     communication |-> "", context |-> <<>>,
     teacher_diagnosis |-> "", correct_diagnosis_text |-> "",
     correct_diagnosis_json |-> ""]

\* a block of prompt text: the language directive block or one of the eight
\* templates (four operations, two languages)
EmptyString == [kind |-> "", language |-> "", op |-> ""]

ChineseDirectiveBlock == [kind |-> "directive", language |-> "zh", op |-> ""]

\* faulty variant of GetLanguagePrefix: the test is written "language != 'english'"
GetLanguagePrefixNotEnglish(language) ==
    IF language # "english" THEN ChineseDirectiveBlock ELSE EmptyString

\* GeminiService._get_language_prefix
GetLanguagePrefix(language) ==
    IF language = "traditional_chinese" THEN ChineseDirectiveBlock ELSE EmptyString

\* language_prefix + template.format(...): an empty prefix adds nothing
Concat(prefix, body) == IF prefix = EmptyString THEN <<body>> ELSE <<prefix, body>>

\* the "if language == 'traditional_chinese': ... else: ..." choice of template
Template(language, op) ==
    IF language = "traditional_chinese"
    THEN [kind |-> "template", language |-> "zh", op |-> op]
    ELSE [kind |-> "template", language |-> "en", op |-> op]

(***************************************************************************)
(* GeminiService                                                           *)
(***************************************************************************)
\* faulty variant of InitializeModel: the "if api_key:" test is missing
InitializeModelNoKeyCheck(environ, ctorOk) ==
    IF ctorOk THEN Handle ELSE None

\* GeminiService._initialize_model: the handle is set when a key is found under
\* one of the two names and one of the three GenerativeModel constructors
\* succeeds (ctorOk); which of the three model names was taken is not kept.
InitializeModel(environ, ctorOk) ==
    IF environ # {} /\ ctorOk THEN Handle ELSE None

\* GeminiService._check_api_available: the exception raised, NoExc when none
CheckApiAvailable(m) ==
    IF m = None
    THEN HTTPException(503, "AI service unavailable. Please check your GOOGLE_API_KEY environment variable.")
    ELSE NoExc

\* "if self.model is None: raise HTTPException(503, ...)" before generate_content
CheckModelBeforeCall(m) ==
    IF m = None THEN HTTPException(503, "AI service unavailable") ELSE NoExc

\* what the part of a service method before generate_content ends in
Raised(e) == [exc |-> e, prompt |-> NoPrompt]
Built(p) == [exc |-> NoExc, prompt |-> p]

\* GeminiService.generate_question up to the gateway call
GenerateQuestionPre(m, a) ==
    IF CheckApiAvailable(m) # NoExc THEN Raised(CheckApiAvailable(m))
    ELSE LET p == [NoPrompt EXCEPT
                     !.parts = Concat(GetLanguagePrefix(a.language),
                                      Template(a.language, "generate_question"))]
         IN  IF CheckModelBeforeCall(m) # NoExc
             THEN Raised(CheckModelBeforeCall(m))
             ELSE Built(p)

\* faulty variant of GenerateScenarioPre: the "if not question" test is missing
GenerateScenarioPreNoQuestionCheck(m, a) ==
    IF CheckApiAvailable(m) # NoExc THEN Raised(CheckApiAvailable(m))
    ELSE LET p == [NoPrompt EXCEPT
                     !.parts = Concat(GetLanguagePrefix(a.language),
                                      Template(a.language, "generate_scenario")),
                     !.persona_traits = a.persona]
         IN  IF CheckModelBeforeCall(m) # NoExc
             THEN Raised(CheckModelBeforeCall(m))
             ELSE Built(p)

\* faulty variant of GenerateScenarioPre: the question is tested before the
\* availability of the model
GenerateScenarioPreQuestionFirst(m, a) ==
    IF Falsy(a.question)
    THEN Raised(Raise("ValueError", "Question is required for scenario generation"))
    ELSE IF CheckApiAvailable(m) # NoExc THEN Raised(CheckApiAvailable(m))
    ELSE LET p == [NoPrompt EXCEPT
                     !.parts = Concat(GetLanguagePrefix(a.language),
                                      Template(a.language, "generate_scenario")),
                     !.persona_traits = a.persona]
         IN  IF CheckModelBeforeCall(m) # NoExc
             THEN Raised(CheckModelBeforeCall(m))
             ELSE Built(p)

\* GeminiService.generate_scenario up to the gateway call
GenerateScenarioPre(m, a) ==
    IF CheckApiAvailable(m) # NoExc THEN Raised(CheckApiAvailable(m))
    ELSE IF Falsy(a.question)
    THEN Raised(Raise("ValueError", "Question is required for scenario generation"))
    ELSE LET p == [NoPrompt EXCEPT
                     !.parts = Concat(GetLanguagePrefix(a.language),
                                      Template(a.language, "generate_scenario")),
                     !.persona_traits = a.persona]
         IN  IF CheckModelBeforeCall(m) # NoExc
             THEN Raised(CheckModelBeforeCall(m))
             ELSE Built(p)

\* msg['sender'].title()
Title(sender) ==
    IF sender = "teacher" THEN "Teacher"
    ELSE IF sender = "student" THEN "Student"
    ELSE sender

\* chat_history[-6:]
ContextWindow == 6

\* faulty variant of LastMessages: the slice is written chat_history[:6]
LastMessagesFirst(h) ==
    IF Len(h) <= ContextWindow THEN h ELSE SubSeq(h, 1, ContextWindow)

LastMessages(h) ==
    IF Len(h) <= ContextWindow THEN h ELSE SubSeq(h, Len(h) - ContextWindow + 1, Len(h))

\* msg['sender'], msg['message'] raise KeyError on a message without the key
WellFormedMessage(msg) == {"sender", "message"} \subseteq DOMAIN msg

\* f"{msg['sender'].title()}: {msg['message']}\n" for each message
ChatLines(h) == [i \in 1..Len(h) |-> <<Title(h[i].sender), h[i].message>>]

\* faulty variant of ConfidenceDirective: "< 3" for "<= 3"
ConfidenceDirectiveStrict(language, persona) ==
    LET v == Get(persona, "confidence_level", 5)
    IN  IF language = "traditional_chinese"
        THEN IF v < 3 THEN "zh: hesitant, uses 'maybe', 'I think', seeks confirmation"
             ELSE IF v >= 8 THEN "zh: confident, states opinions clearly"
             ELSE "zh: shows moderate confidence"
        ELSE IF v < 3 THEN "Be hesitant, use 'maybe', 'I think', ask for validation"
             ELSE IF v >= 8 THEN "Be assertive and state opinions clearly"
             ELSE "Show moderate confidence"

\* the three-way conditional expressions of persona_guidance (lines 420-422, 464-466)
ConfidenceDirective(language, persona) ==
    LET v == Get(persona, "confidence_level", 5)
    IN  IF language = "traditional_chinese"
        THEN IF v <= 3 THEN "zh: hesitant, uses 'maybe', 'I think', seeks confirmation"
             ELSE IF v >= 8 THEN "zh: confident, states opinions clearly"
             ELSE "zh: shows moderate confidence"
        ELSE IF v <= 3 THEN "Be hesitant, use 'maybe', 'I think', ask for validation"
             ELSE IF v >= 8 THEN "Be assertive and state opinions clearly"
             ELSE "Show moderate confidence"

PersistenceDirective(language, persona) ==
    LET v == Get(persona, "persistence", 5)
    IN  IF language = "traditional_chinese"
        THEN IF v <= 3 THEN "zh: gives up easily, often says 'I don't know'"
             ELSE IF v >= 8 THEN "zh: keeps trying, asks follow-up questions"
             ELSE "zh: shows average persistence"
        ELSE IF v <= 3 THEN "Give up quickly, say 'I don't know' often"
             ELSE IF v >= 8 THEN "Keep trying, ask follow-up questions"
             ELSE "Show average persistence"

MetacognitiveDirective(language, persona) ==
    LET v == Get(persona, "metacognitive_awareness", 5)
    IN  IF language = "traditional_chinese"
        THEN IF v <= 3 THEN "zh: does not recognize own mistakes or confusion"
             ELSE IF v >= 8 THEN "zh: says 'I'm confused about...' or 'I think I understand but...'"
             ELSE "zh: shows moderate metacognitive awareness"
        ELSE IF v <= 3 THEN "Don't recognize own mistakes or confusion"
             ELSE IF v >= 8 THEN "Say things like 'I'm confused about...' or 'I think I understand but...'"
             ELSE "Show moderate metacognitive awareness"

\* the communication-style conditional (lines 423, 467): persona.get('communication_style')
CommunicationDirective(language, persona) ==
    LET v == Get(persona, "communication_style", None)
    IN  IF language = "traditional_chinese"
        THEN IF v = "visual" THEN "zh: asks for diagrams/pictures, describes spatial relationships"
             ELSE IF v = "hands_on" THEN "zh: wants to try things, mentions physical examples"
             ELSE "zh: prefers verbal explanations, asks for definitions"
        ELSE IF v = "visual" THEN "Ask for diagrams/pictures, describe spatial relationships"
             ELSE IF v = "hands_on" THEN "Want to try things, mention physical examples"
             ELSE "Prefer verbal explanations, ask for definitions"

\* GeminiService.generate_student_response up to the gateway call
GenerateStudentResponsePre(m, a) ==
    IF CheckApiAvailable(m) # NoExc THEN Raised(CheckApiAvailable(m))
    ELSE LET persona == Get(a.scenario, "persona", EmptyDict)
             window == LastMessages(a.chat_history)
         IN  IF \E i \in 1..Len(window) : ~WellFormedMessage(window[i])
             THEN Raised(Raise("KeyError", "sender"))
             ELSE LET p == [NoPrompt EXCEPT
                              !.parts = Concat(GetLanguagePrefix(a.language),
                                               Template(a.language, "generate_student_response")),
                              !.persona_traits = persona,
                              !.confidence = ConfidenceDirective(a.language, persona),
                              !.persistence = PersistenceDirective(a.language, persona),
                              !.metacognitive = MetacognitiveDirective(a.language, persona),
                              !.communication = CommunicationDirective(a.language, persona),
                              !.context = ChatLines(window)]
                  IN  IF CheckModelBeforeCall(m) # NoExc
                      THEN Raised(CheckModelBeforeCall(m))
                      ELSE Built(p)

\* faulty variant of CorrectDiagnosisText: the Chinese pair is the wrong way round
CorrectDiagnosisTextSwapped(language, correct_diagnosis) ==
    IF language = "traditional_chinese"
    THEN IF correct_diagnosis THEN "zh: no" ELSE "zh: yes"
    ELSE IF correct_diagnosis THEN "YES" ELSE "NO"

\* "YES" if correct_diagnosis else "NO", and the Chinese pair (lines 542, 583)
CorrectDiagnosisText(language, correct_diagnosis) ==
    IF language = "traditional_chinese"
    THEN IF correct_diagnosis THEN "zh: yes" ELSE "zh: no"
    ELSE IF correct_diagnosis THEN "YES" ELSE "NO"

\* faulty variant of InRange: a negative index is refused
InRangeNonNegative(options, i) == 0 <= i /\ i < Len(options)

\* options[i] for a Python list: a negative index counts from the end
InRange(options, i) == -Len(options) <= i /\ i < Len(options)

\* faulty variant of Item: a negative index counts from the start
ItemMirrored(options, i) == IF i >= 0 THEN options[i + 1] ELSE options[-i]

Item(options, i) == IF i >= 0 THEN options[i + 1] ELSE options[Len(options) + i + 1]

\* GeminiService.evaluate_session up to the gateway call
EvaluateSessionPre(m, a) ==
    IF CheckApiAvailable(m) # NoExc THEN Raised(CheckApiAvailable(m))
    ELSE LET correct_index == Get(a.scenario, "correctMisconceptionIndex", 0)
             correct_diagnosis == (a.selected_misconception = correct_index)
             h == a.chat_history
         IN  IF \E i \in 1..Len(h) : ~WellFormedMessage(h[i])
             THEN Raised(Raise("KeyError", "sender"))
             ELSE IF "student" \notin DOMAIN a.scenario
             THEN Raised(Raise("KeyError", "student"))
             ELSE IF "actualMisconception" \notin DOMAIN a.scenario.student
             THEN Raised(Raise("KeyError", "actualMisconception"))
             ELSE IF "misconceptionOptions" \notin DOMAIN a.scenario
             THEN Raised(Raise("KeyError", "misconceptionOptions"))
             ELSE IF ~InRange(a.scenario.misconceptionOptions, a.selected_misconception)
             THEN Raised(Raise("IndexError", "list index out of range"))
             ELSE LET p == [NoPrompt EXCEPT
                              !.parts = Concat(GetLanguagePrefix(a.language),
                                               Template(a.language, "evaluate_session")),
                              !.context = ChatLines(h),
                              !.teacher_diagnosis =
                                  Item(a.scenario.misconceptionOptions, a.selected_misconception),
                              !.correct_diagnosis_text =
                                  CorrectDiagnosisText(a.language, correct_diagnosis),
                              !.correct_diagnosis_json = StrLower(correct_diagnosis)]
                  IN  IF CheckModelBeforeCall(m) # NoExc
                      THEN Raised(CheckModelBeforeCall(m))
                      ELSE Built(p)

\* the part of the service method of operation op before the gateway call
ServicePre(op, m, a) ==
    CASE op = "generate_question" -> GenerateQuestionPre(m, a)
      [] op = "generate_scenario" -> GenerateScenarioPre(m, a)
      [] op = "generate_student_response" -> GenerateStudentResponsePre(m, a)
      [] op = "evaluate_session" -> EvaluateSessionPre(m, a)

(***************************************************************************)
(* The model's replies                                                     *)
(***************************************************************************)
Newline == <<"\n">>

\* generate_content either raises or returns a response with a text
GatewayRaises == [raises |-> TRUE, text |-> <<>>]
GatewayText(t) == [raises |-> FALSE, text |-> t]

\* the texts a reply of the main specification carries: plain JSON, JSON in a
\* json-tagged fence, JSON in a generic fence, a JSON number, and text that is
\* not JSON
ReplyTexts ==
    { JsonObjectText,
      FenceJson \o Newline \o JsonObjectText \o Newline \o Fence,
      Fence \o Newline \o JsonNumberText \o Newline \o Fence \o Newline,
      <<" ", "o", "k", " ">> }

Replies == {GatewayRaises} \cup {GatewayText(t) : t \in ReplyTexts}

\* what the part of a service method after generate_content ends in
Failed(e) == [exc |-> e, value |-> <<>>]
Returned(v) == [exc |-> NoExc, value |-> v]

\* clean_text = self._clean_json_response(response.text); json.loads(clean_text)
ParseReply(text) ==
    LET clean_text == CleanJsonResponse(text)
    IN  IF JsonLoadsOk(clean_text)
        THEN Returned(clean_text)
        ELSE Failed(Raise("JSONDecodeError", "Expecting value"))

\* the part of the service method of operation op from the gateway's reply on
ServicePost(op, g) ==
    IF g.raises THEN Failed(Raise("GatewayError", "provider failure"))
    ELSE IF op = "generate_student_response" THEN Returned(Strip(g.text))
    ELSE ParseReply(g.text)

(***************************************************************************)
(* Requests, arguments and responses                                       *)
(***************************************************************************)
Operations ==
    {"generate_question", "generate_scenario", "generate_student_response",
     "evaluate_session"}

NoReq ==
    [entry |-> "", op |-> "", body |-> "ok", language |-> Absent,
     question |-> Absent, studentPersona |-> EmptyDict, personaIllTyped |-> FALSE,
     scenario |-> EmptyDict, chatHistory |-> <<>>, selectedMisconception |-> 0]

NoArgs ==
    [language |-> "", question |-> None, persona |-> EmptyDict,
     scenario |-> EmptyDict, chat_history |-> <<>>, selected_misconception |-> 0,
     text |-> <<>>]

NoResp ==
    [status |-> 0, kind |-> "", keys |-> {}, message |-> "", cause |-> NoExc,
     value |-> <<>>]

\* class StudentPersona(BaseModel): the field defaults
PersonaDefaults ==
    [conceptual_readiness |-> 5, metacognitive_awareness |-> 5, persistence |-> 5,
     communication_style |-> "verbal", confidence_level |-> 5]

\* StudentPersona(**data): absent fields take their defaults; no range is checked
StudentPersona(data) ==
    [k \in DOMAIN PersonaDefaults |-> Get(data, k, PersonaDefaults[k])]

\* a field with default "english" (pydantic field default, dict.get default,
\* keyword default)
LanguageOrDefault(r) == IF r.language = Absent THEN "english" ELSE r.language

\* the arguments the FastAPI route passes: the validated request object's fields
\* (question: Optional[str] = None)
RouteArgs(r) ==
    [language |-> LanguageOrDefault(r),
     question |-> IF r.question = Absent THEN None ELSE r.question,
     persona |-> StudentPersona(r.studentPersona),
     scenario |-> r.scenario,
     chat_history |-> r.chatHistory,
     selected_misconception |-> r.selectedMisconception]

\* the arguments the serverless handler passes: request_data.get(key, default)
HandlerArgs(r) ==
    [language |-> LanguageOrDefault(r),
     question |-> IF r.question = Absent THEN "" ELSE r.question,
     persona |-> StudentPersona(r.studentPersona),
     scenario |-> r.scenario,
     chat_history |-> r.chatHistory,
     selected_misconception |-> r.selectedMisconception]

\* the arguments of a direct call of the service method
DirectArgs(r) ==
    [language |-> LanguageOrDefault(r),
     question |-> r.question,
     persona |-> StudentPersona(r.studentPersona),
     scenario |-> r.scenario,
     chat_history |-> r.chatHistory,
     selected_misconception |-> r.selectedMisconception]

\* faulty variant of Args: the method trims the list it was given in place
\* (del chat_history[:-6])
ArgsTrimmedInPlace(r) ==
    LET a == CASE r.entry = "fastapi" -> RouteArgs(r)
               [] r.entry = "serverless" -> HandlerArgs(r)
               [] r.entry = "service" -> DirectArgs(r)
    IN  [a EXCEPT !.chat_history = LastMessages(a.chat_history)]

Args(r) ==
    CASE r.entry = "fastapi" -> RouteArgs(r)
      [] r.entry = "serverless" -> HandlerArgs(r)
      [] r.entry = "service" -> DirectArgs(r)

\* the operation-specific text of the error messages
RouteMessage(op) ==
    CASE op = "generate_question" -> "Failed to generate question"
      [] op = "generate_scenario" -> "Failed to generate scenario"
      [] op = "generate_student_response" -> "Failed to generate student response"
      [] op = "evaluate_session" -> "Failed to evaluate session"

HandlerMessage(op) ==
    CASE op = "generate_question" -> "Question generation failed"
      [] op = "generate_scenario" -> "Scenario generation failed"
      [] op = "generate_student_response" -> "Student response failed"
      [] op = "evaluate_session" -> "Session evaluation failed"

\* the body of a successful response: the parsed value itself, or, for the
\* student turn, {"response": text}
ResultKeys(op, v) == IF op = "generate_student_response" THEN {"response"} ELSE TopKeys(v)

(***************************************************************************)
(* FastAPI routes (simple_app.py)                                          *)
(***************************************************************************)
\* "except Exception as e: raise HTTPException(status_code=500,
\*  detail=f"Failed to ...: {str(e)}")": HTTPException is an Exception, so the
\* handler also catches the 503 and the 400 raised inside the try block
RouteError(op, e) ==
    [status |-> 500, kind |-> "error", keys |-> {"detail"},
     message |-> RouteMessage(op), cause |-> e, value |-> <<>>]

RouteResult(op, v) ==
    [status |-> 200, kind |-> "result", keys |-> ResultKeys(op, v), message |-> "",
     cause |-> NoExc, value |-> v]

\* request validation by the pydantic request models, before the route runs
RouteValidationFails(r) ==
    \/ r.body # "ok"
    \/ r.op = "generate_scenario" /\ r.personaIllTyped

ValidationResponse ==
    [status |-> 422, kind |-> "error", keys |-> {"detail"},
     message |-> "request validation failed",
     cause |-> Raise("RequestValidationError", "field required"), value |-> <<>>]

\* the response a route produces without calling the service, NoResp if none
RouteEarly(r) ==
    IF RouteValidationFails(r) THEN ValidationResponse
    ELSE IF r.op = "generate_scenario" /\ Falsy(RouteArgs(r).question)
    THEN RouteError(r.op,
             HTTPException(400, "Question is required for scenario generation"))
    ELSE NoResp

(***************************************************************************)
(* Serverless handler (api/index.py): do_POST                              *)
(***************************************************************************)
\* self.send_response(200) is sent before the request is routed
HandlerStatus == 200

HandlerNotAvailable ==
    [status |-> HandlerStatus, kind |-> "error", keys |-> {"error"},
     message |-> "TeachWise service not available - check server logs",
     cause |-> NoExc, value |-> <<>>]

HandlerNoModel ==
    [status |-> HandlerStatus, kind |-> "error", keys |-> {"error", "help"},
     message |-> "AI service unavailable - GOOGLE_API_KEY environment variable not set in Vercel",
     cause |-> NoExc, value |-> <<>>]

\* faulty variant of HandlerError: a failed operation is answered with status 500
HandlerErrorStatus500(op, e) ==
    [status |-> 500, kind |-> "error", keys |-> {"error", "details"},
     message |-> HandlerMessage(op), cause |-> e, value |-> <<>>]

HandlerError(op, e) ==
    [status |-> HandlerStatus, kind |-> "error", keys |-> {"error", "details"},
     message |-> HandlerMessage(op), cause |-> e, value |-> <<>>]

HandlerResult(op, v) ==
    [status |-> HandlerStatus, kind |-> "result", keys |-> ResultKeys(op, v),
     message |-> "", cause |-> NoExc, value |-> v]

\* the response the handler produces without calling the service, NoResp if none
HandlerEarly(r, available, m) ==
    IF ~available THEN HandlerNotAvailable
    ELSE IF m = None THEN HandlerNoModel
    ELSE IF r.op = "generate_scenario" /\ r.personaIllTyped
    THEN HandlerError(r.op, Raise("ValidationError", "studentPersona"))
    ELSE NoResp

(***************************************************************************)
(* Direct call of a service method                                         *)
(***************************************************************************)
DirectError(e) ==
    [status |-> e.status_code, kind |-> "error", keys |-> {}, message |-> "",
     cause |-> e, value |-> <<>>]

\* the parsed value itself, or the stripped text of the student turn
DirectResult(op, v) ==
    [status |-> 0, kind |-> "result",
     keys |-> IF op = "generate_student_response" THEN {} ELSE TopKeys(v),
     message |-> "", cause |-> NoExc, value |-> v]

(***************************************************************************)
(* The three entry points together                                         *)
(***************************************************************************)
Early(r, available, m) ==
    CASE r.entry = "fastapi" -> RouteEarly(r)
      [] r.entry = "serverless" -> HandlerEarly(r, available, m)
      [] r.entry = "service" -> NoResp

WrapError(r, e) ==
    CASE r.entry = "fastapi" -> RouteError(r.op, e)
      [] r.entry = "serverless" -> HandlerError(r.op, e)
      [] r.entry = "service" -> DirectError(e)

WrapResult(r, v) ==
    CASE r.entry = "fastapi" -> RouteResult(r.op, v)
      [] r.entry = "serverless" -> HandlerResult(r.op, v)
      [] r.entry = "service" -> DirectResult(r.op, v)

\* faulty variant of BodiesWritten: the early branches of do_POST lack their "return"
BodiesWrittenNoReturn(r, early) ==
    IF r.entry = "serverless"
    THEN (IF early THEN 1 ELSE 0) + 1
    ELSE 1

\* the number of responses an invocation produces.  In do_POST the branches that
\* answer before the try block write the body and return, so the write at the
\* end of do_POST is not reached; a route or a service method returns or raises
\* once.
BodiesWritten(r, early) ==
    IF r.entry = "serverless"
    THEN (IF early THEN 1 ELSE 0) + (IF early THEN 0 ELSE 1)
    ELSE 1

(***************************************************************************)
(* The requests of the main specification                                  *)
(***************************************************************************)
Entries == {"fastapi", "serverless", "service"}

Languages == {Absent, "english", "traditional_chinese", "french"}

\* the body of an HTTP request: well-formed, lacking a required field, or not JSON
HttpRequests(op, fields) ==
    { [f EXCEPT !.entry = e, !.op = op, !.body = b] :
        e \in {"fastapi", "serverless"}, b \in {"ok", "missing"}, f \in fields }
    \cup
    { [NoReq EXCEPT !.entry = e, !.op = op, !.body = "unparsable"] :
        e \in {"fastapi", "serverless"} }

DirectCalls(op, fields) ==
    { [f EXCEPT !.entry = "service", !.op = op] : f \in fields }

QuestionFields == { [NoReq EXCEPT !.language = l] : l \in Languages }

PersonaInputs ==
    { EmptyDict,
      [confidence_level |-> 2, communication_style |-> "visual"],
      [confidence_level |-> 11, persistence |-> 0] }

ScenarioFields ==
    { [NoReq EXCEPT !.language = l, !.question = q, !.studentPersona = p] :
        l \in Languages, q \in {Absent, None, "", "What is 1/2 + 1/3?"},
        p \in PersonaInputs }

ScenarioIllTyped ==
    { [NoReq EXCEPT !.question = q, !.personaIllTyped = TRUE] :
        q \in {"", "What is 1/2 + 1/3?"} }

\* a chat history of n well-formed messages, teacher and student in turn
History(n) ==
    [i \in 1..n |->
        [sender |-> IF i % 2 = 1 THEN "teacher" ELSE "student", message |-> i]]

\* a history whose only message has no sender
MalformedHistory == << [message |-> 1] >>

Histories == {History(n) : n \in 0..MaxHistory} \cup {MalformedHistory}

StudentScenarios ==
    { EmptyDict,
      [persona |-> [confidence_level |-> 3, persistence |-> 8]],
      [persona |-> [metacognitive_awareness |-> 9, communication_style |-> "hands_on"]] }

StudentFields ==
    { [NoReq EXCEPT !.language = l, !.scenario = sc, !.chatHistory = h] :
        l \in Languages, sc \in StudentScenarios, h \in Histories }

Options == <<"option A", "option B">>

EvaluationScenarios ==
    { [student |-> [actualMisconception |-> "adds the denominators"],
       misconceptionOptions |-> Options, correctMisconceptionIndex |-> i] :
        i \in {0, 1, 4} }
    \cup
    { [student |-> [actualMisconception |-> "adds the denominators"],
       misconceptionOptions |-> Options],
      [misconceptionOptions |-> Options, correctMisconceptionIndex |-> 0],
      [student |-> [actualMisconception |-> "adds the denominators"],
       correctMisconceptionIndex |-> 0],
      EmptyDict }

Selections == -3..2

EvaluationFields ==
    { [NoReq EXCEPT !.language = l, !.scenario = sc, !.selectedMisconception = i,
                    !.chatHistory = h] :
        l \in {Absent, "traditional_chinese", "french"}, sc \in EvaluationScenarios,
        i \in Selections, h \in {History(MaxHistory), MalformedHistory} }

Requests ==
    HttpRequests("generate_question", QuestionFields)
    \cup DirectCalls("generate_question", QuestionFields)
    \cup HttpRequests("generate_scenario", ScenarioFields \cup ScenarioIllTyped)
    \cup DirectCalls("generate_scenario", {f \in ScenarioFields : f.question # Absent})
    \cup HttpRequests("generate_student_response", StudentFields)
    \cup DirectCalls("generate_student_response", StudentFields)
    \cup HttpRequests("evaluate_session", EvaluationFields)
    \cup DirectCalls("evaluate_session", EvaluationFields)

(***************************************************************************)
(* State machine                                                           *)
(***************************************************************************)
KeyNames == {"GOOGLE_API_KEY", "GEMINI_API_KEY"}

\* the state after the modules are imported: gemini_service = GeminiService()
\* has run _initialize_model once.  When the import of simple_app failed there
\* is no gemini_service.
Init ==
    /\ env \in SUBSET KeyNames
    /\ TEACHWISE_AVAILABLE \in BOOLEAN
    /\ \E ctorOk \in BOOLEAN :
          model = IF TEACHWISE_AVAILABLE THEN InitializeModel(env, ctorOk) ELSE None
    /\ calls = 0
    /\ pc = "idle"
    /\ req = NoReq
    /\ args = NoArgs
    /\ prompt = NoPrompt
    /\ callsThis = 0
    /\ resp = NoResp
    /\ writes = 0

\* the invocation ends with response x
Finish(x, n) ==
    /\ pc' = "done"
    /\ resp' = x
    /\ writes' = n

\* a request arrives and is handled up to the response or up to the call of
\* model.generate_content(prompt)
Invoke(r) ==
    /\ pc = "idle"
    /\ calls < MaxCalls
    /\ r.entry = "serverless" \/ TEACHWISE_AVAILABLE
    /\ req' = r
    /\ LET early == Early(r, TEACHWISE_AVAILABLE, model)
           pre == ServicePre(r.op, model, Args(r))
       IN  IF early # NoResp
           THEN /\ Finish(early, BodiesWritten(r, TRUE))
                /\ args' = NoArgs
                /\ prompt' = NoPrompt
                /\ UNCHANGED <<calls, callsThis>>
           ELSE IF pre.exc # NoExc
           THEN /\ Finish(WrapError(r, pre.exc), BodiesWritten(r, FALSE))
                /\ args' = Args(r)
                /\ prompt' = NoPrompt
                /\ UNCHANGED <<calls, callsThis>>
           ELSE /\ pc' = "calling"
                /\ args' = Args(r)
                /\ prompt' = pre.prompt
                /\ calls' = calls + 1
                /\ callsThis' = callsThis + 1
                /\ UNCHANGED <<resp, writes>>
    /\ UNCHANGED <<env, model, TEACHWISE_AVAILABLE>>

\* faulty variant of GatewayReply: a failed call or a failed parse is tried once more
GatewayReplyRetry(g) ==
    /\ pc = "calling"
    /\ LET post == ServicePost(req.op, g)
       IN  IF post.exc # NoExc /\ callsThis < 2
           THEN /\ calls' = calls + 1
                /\ callsThis' = callsThis + 1
                /\ UNCHANGED <<pc, resp, writes>>
           ELSE /\ Finish(WrapResult(req, post.value), BodiesWritten(req, FALSE))
                /\ UNCHANGED <<calls, callsThis>>
    /\ UNCHANGED <<env, model, TEACHWISE_AVAILABLE, req, args, prompt>>

\* generate_content returns or raises, and the invocation runs to its response
GatewayReply(g) ==
    /\ pc = "calling"
    /\ LET post == ServicePost(req.op, g)
       IN  IF post.exc # NoExc
           THEN Finish(WrapError(req, post.exc), BodiesWritten(req, FALSE))
           ELSE Finish(WrapResult(req, post.value), BodiesWritten(req, FALSE))
    /\ UNCHANGED <<env, model, TEACHWISE_AVAILABLE, calls, req, args, prompt, callsThis>>

\* faulty variant of Return: the service initializes its model again after
\* every request
ReturnReinitializes ==
    /\ pc = "done"
    /\ pc' = "idle"
    /\ req' = NoReq
    /\ args' = NoArgs
    /\ prompt' = NoPrompt
    /\ callsThis' = 0
    /\ resp' = NoResp
    /\ writes' = 0
    /\ model' = IF TEACHWISE_AVAILABLE THEN InitializeModel(env, TRUE) ELSE None
    /\ UNCHANGED <<env, TEACHWISE_AVAILABLE, calls>>

\* the response is delivered; nothing of the invocation is kept
Return ==
    /\ pc = "done"
    /\ pc' = "idle"
    /\ req' = NoReq
    /\ args' = NoArgs
    /\ prompt' = NoPrompt
    /\ callsThis' = 0
    /\ resp' = NoResp
    /\ writes' = 0
    /\ UNCHANGED <<env, model, TEACHWISE_AVAILABLE, calls>>

Next ==
    \/ \E r \in Requests : Invoke(r)
    \/ \E g \in Replies : GatewayReply(g)
    \/ Return

Spec == Init /\ [][Next]_vars

(***************************************************************************)
(* The specification of the persona directives: student-turn requests over *)
(* every combination of the three thresholded traits                       *)
(***************************************************************************)
\* StudentPersona: "1-10"
MaxTrait == 10

ThresholdedTraits == {"confidence_level", "persistence", "metacognitive_awareness"}

\* every persona dict over the three traits, each absent or in 1..MaxTrait
TraitPersonas ==
    UNION { [K -> 1..MaxTrait] : K \in SUBSET ThresholdedTraits }

PersonaRequests ==
    { [NoReq EXCEPT !.entry = e, !.op = "generate_student_response",
                    !.language = l, !.scenario = [persona |-> p]] :
        e \in {"service"}, l \in {"english", "traditional_chinese"},
        p \in TraitPersonas }

InitPersona == Init /\ model = Handle /\ env = KeyNames

NextPersona ==
    \/ \E r \in PersonaRequests : Invoke(r)
    \/ \E g \in Replies : GatewayReply(g)
    \/ Return

SpecPersona == InitPersona /\ [][NextPersona]_vars

(***************************************************************************)
(* Properties                                                              *)
(***************************************************************************)
HttpEntries == {"fastapi", "serverless"}

NoQuestion(r) == r.op = "generate_scenario" /\ r.question \in {Absent, None, ""}

\* the response reports a missing or invalid input
InputError(x) ==
    /\ x.kind = "error"
    /\ \/ x.cause.type \in {"ValueError", "ValidationError", "RequestValidationError"}
       \/ x.cause.type = "HTTPException" /\ x.cause.status_code = 400

\* the response reports that the AI service is not available
Unavailable(x) ==
    /\ x.kind = "error"
    /\ \/ x.cause.type = "HTTPException" /\ x.cause.status_code = 503
       \/ x \in {HandlerNoModel, HandlerNotAvailable}

\* the operation an error message names
OperationNamed(message) ==
    {op \in Operations : message \in {RouteMessage(op), HandlerMessage(op)}}

\* C1: with no API key configured the model handle is unset, and while the
\* handle is unset no gateway call is ever made or pending and every finished
\* invocation of the four operations has ended in an error.
C1_NoKeyFailsFast ==
    /\ env = {} => model = None
    /\ model = None =>
          /\ calls = 0
          /\ pc # "calling"
          /\ pc = "done" => resp.kind = "error" /\ callsThis = 0

C1_Witness ==
    /\ env = {} /\ model = None /\ TEACHWISE_AVAILABLE
    /\ pc = "done" /\ req.op = "evaluate_session" /\ req.body = "ok"
    /\ req.entry = "fastapi" /\ Unavailable(resp)

\* C2 as stated, for the service method: GeminiService.generate_scenario called
\* without a question always ends in an input error, with no gateway call made
\* by the invocation.
C2_NoQuestionIsInputError ==
    (pc = "done" /\ req.entry = "service" /\ NoQuestion(req)) =>
        (InputError(resp) /\ callsThis = 0)

\* C2: generate_scenario without a question never reaches the gateway call and
\* ends in an error with no gateway call made; the error is an input error
\* whenever the model handle is set, and in the FastAPI route also when it is
\* unset; with the handle unset the service method and the serverless handler
\* report that the service is unavailable.
C2_NoQuestionNoCall ==
    NoQuestion(req) =>
        /\ pc # "calling"
        /\ pc = "done" =>
              /\ callsThis = 0
              /\ resp.kind = "error"
              /\ (model # None \/ req.entry = "fastapi") => InputError(resp)
              /\ (model = None /\ req.entry # "fastapi") => Unavailable(resp)

C2_Witness ==
    /\ pc = "done" /\ NoQuestion(req) /\ req.question = None /\ model # None
    /\ req.entry = "service" /\ req.language = "traditional_chinese"
    /\ resp.cause.type = "ValueError" /\ calls = 1 /\ callsThis = 0

\* C3 as stated: with no API key configured, each of the four POST operations
\* answers a well-formed request with status 503.
C3_Unavailable503 ==
    (/\ pc = "done" /\ model = None /\ TEACHWISE_AVAILABLE
     /\ req.entry \in HttpEntries /\ req.body = "ok" /\ ~req.personaIllTyped)
    => resp.status = 503

\* C4 as stated: a well-formed POST /api/generate-scenario without a question is
\* answered with status 400.
C4_NoQuestion400 ==
    (/\ pc = "done" /\ NoQuestion(req) /\ model # None
     /\ req.entry \in HttpEntries /\ req.body = "ok" /\ ~req.personaIllTyped)
    => (resp.status = 400 /\ InputError(resp))

\* C5 as stated: every exception raised while an HTTP entry point handles an
\* operation ends in an error envelope that names the operation, carries the
\* cause, and has status 500.
C5_ExceptionsBecome500 ==
    (/\ pc = "done" /\ req.entry \in HttpEntries
     /\ resp.cause.type \notin {"", "RequestValidationError"})
    => /\ resp.kind = "error"
       /\ OperationNamed(resp.message) = {req.op}
       /\ resp.status = 500

\* C6: an invocation makes at most one gateway call, and once its call has been
\* issued (whether it then fails, fails to parse or succeeds) the count of
\* gateway calls does not change again during that invocation.
C6_NoRetry ==
    [][ /\ callsThis' <= 1
        /\ (pc \in {"calling", "done"}) => (calls' = calls) ]_vars

C6_Witness ==
    /\ pc = "done" /\ callsThis = 1 /\ resp.kind = "error"
    /\ resp.cause.type = "JSONDecodeError"

\* C7: a finished invocation has produced exactly one response (none before it
\* finishes); the response is either a result, which is the whole parsed value
\* of a reply the gateway returned, or an error envelope, which holds error
\* keys only and no part of a result.
ErrorKeys == {"detail", "error", "details", "help"}

C7_OneResponse ==
    /\ pc # "done" => writes = 0 /\ resp = NoResp
    /\ pc = "done" =>
          /\ writes = 1
          /\ resp.kind \in {"result", "error"}
          /\ resp.kind = "result" =>
                /\ callsThis = 1 /\ resp.cause = NoExc
                /\ req.entry \in HttpEntries => resp.keys = ResultKeys(req.op, resp.value)
                /\ req.op # "generate_student_response" => resp.value \in ValidJsonTexts
          /\ resp.kind = "error" =>
                /\ resp.value = <<>>
                /\ resp.keys \subseteq ErrorKeys

C7_Witness ==
    /\ pc = "done" /\ req.entry = "serverless" /\ model = None /\ TEACHWISE_AVAILABLE
    /\ resp = HandlerNoModel /\ writes = 1

\* C8: in the student-turn prompt each of confidence, persistence and
\* metacognitive awareness gets the low directive for a value <= 3, the high
\* directive for a value >= 8 and the neutral directive for 4..7, an absent
\* trait counting as 5; the directive of a trait is fixed by that trait's
\* value and the language alone.
TraitValue(r, trait) == Get(Get(r.scenario, "persona", EmptyDict), trait, 5)

Level(v) == IF v <= 3 THEN "low" ELSE IF v >= 8 THEN "high" ELSE "neutral"

ConfidencePhrases ==
    [low |-> {"Be hesitant, use 'maybe', 'I think', ask for validation",
              "zh: hesitant, uses 'maybe', 'I think', seeks confirmation"},
     high |-> {"Be assertive and state opinions clearly",
               "zh: confident, states opinions clearly"},
     neutral |-> {"Show moderate confidence", "zh: shows moderate confidence"}]

PersistencePhrases ==
    [low |-> {"Give up quickly, say 'I don't know' often",
              "zh: gives up easily, often says 'I don't know'"},
     high |-> {"Keep trying, ask follow-up questions",
               "zh: keeps trying, asks follow-up questions"},
     neutral |-> {"Show average persistence", "zh: shows average persistence"}]

MetacognitivePhrases ==
    [low |-> {"Don't recognize own mistakes or confusion",
              "zh: does not recognize own mistakes or confusion"},
     high |-> {"Say things like 'I'm confused about...' or 'I think I understand but...'",
               "zh: says 'I'm confused about...' or 'I think I understand but...'"},
     neutral |-> {"Show moderate metacognitive awareness",
                  "zh: shows moderate metacognitive awareness"}]

C8_ThresholdDirectives ==
    (pc = "calling" /\ req.op = "generate_student_response") =>
        /\ prompt.confidence \in ConfidencePhrases[Level(TraitValue(req, "confidence_level"))]
        /\ prompt.persistence \in PersistencePhrases[Level(TraitValue(req, "persistence"))]
        /\ prompt.metacognitive \in
              MetacognitivePhrases[Level(TraitValue(req, "metacognitive_awareness"))]

C8_Witness ==
    /\ pc = "calling" /\ req.op = "generate_student_response"
    /\ "confidence_level" \notin DOMAIN req.scenario.persona
    /\ TraitValue(req, "persistence") = 3
    /\ TraitValue(req, "metacognitive_awareness") = 8
    /\ prompt.confidence = "Show moderate confidence"
    /\ prompt.persistence = "Give up quickly, say 'I don't know' often"
    /\ prompt.metacognitive =
          "Say things like 'I'm confused about...' or 'I think I understand but...'"

\* C9: in the evaluation prompt the correctDiagnosis token is "true" exactly
\* when selectedMisconception equals the scenario's correctMisconceptionIndex
\* (read as 0 when the scenario has none) and "false" otherwise, and the
\* YES/NO text, in either language, says the same.
C9_CorrectnessToken ==
    (pc = "calling" /\ req.op = "evaluate_session") =>
        LET equal == req.selectedMisconception =
                        Get(req.scenario, "correctMisconceptionIndex", 0)
        IN  /\ equal => /\ prompt.correct_diagnosis_json = "true"
                        /\ prompt.correct_diagnosis_text \in {"YES", "zh: yes"}
            /\ ~equal => /\ prompt.correct_diagnosis_json = "false"
                         /\ prompt.correct_diagnosis_text \in {"NO", "zh: no"}

C9_Witness ==
    /\ pc = "calling" /\ req.op = "evaluate_session"
    /\ req.language = "traditional_chinese"
    /\ req.selectedMisconception = 1
    /\ "correctMisconceptionIndex" \in DOMAIN req.scenario
    /\ req.scenario.correctMisconceptionIndex = 1
    /\ prompt.correct_diagnosis_json = "true"
    /\ prompt.correct_diagnosis_text = "zh: yes"

\* C10: whenever one of the four operations has built its prompt, the prompt
\* is the Chinese directive block followed by the operation's Chinese template
\* if the request's language is "traditional_chinese", and otherwise (any other
\* value, or none) the operation's English template alone.
C10_LanguageSelection ==
    pc = "calling" =>
        IF req.language = "traditional_chinese"
        THEN prompt.parts =
                <<ChineseDirectiveBlock,
                  [kind |-> "template", language |-> "zh", op |-> req.op]>>
        ELSE prompt.parts = <<[kind |-> "template", language |-> "en", op |-> req.op]>>

C10_Witness ==
    /\ pc = "calling" /\ req.op = "generate_scenario" /\ req.language = "french"
    /\ req.entry = "serverless" /\ Len(prompt.parts) = 1

(***************************************************************************)
(* The specification of the conversation context: student turns and        *)
(* evaluations over histories longer than the context window               *)
(***************************************************************************)
MaxLongHistory == 7

HistoryScenario ==
    [persona |-> [confidence_level |-> 3],
     student |-> [actualMisconception |-> "adds the denominators"],
     misconceptionOptions |-> Options, correctMisconceptionIndex |-> 1]

HistoryRequests ==
    { [NoReq EXCEPT !.entry = e, !.op = op, !.language = l,
                    !.scenario = HistoryScenario, !.chatHistory = History(n)] :
        e \in Entries, op \in {"generate_student_response", "evaluate_session"},
        l \in {Absent, "traditional_chinese"}, n \in 0..MaxLongHistory }

InitHistory == Init /\ model = Handle

NextHistory ==
    \/ \E r \in HistoryRequests : Invoke(r)
    \/ \E g \in Replies : GatewayReply(g)
    \/ Return

SpecHistory == InitHistory /\ [][NextHistory]_vars

\* C11: whenever generate_student_response has built its prompt from a history
\* of n entries, the prompt's context is the lines of exactly the last
\* min(6, n) entries, in their original order, and no earlier entry is in it.
C11_LastSixEntries ==
    (pc = "calling" /\ req.op = "generate_student_response") =>
        LET h == req.chatHistory
            n == Len(h)
            k == IF n < 6 THEN n ELSE 6
        IN  /\ Len(prompt.context) = k
            /\ \A i \in 1..k :
                  prompt.context[i] = <<Title(h[n - k + i].sender), h[n - k + i].message>>
            /\ \A j \in 1..(n - k) : \A i \in 1..Len(prompt.context) :
                  prompt.context[i][2] # h[j].message

C11_Witness ==
    /\ pc = "calling" /\ req.op = "generate_student_response"
    /\ Len(req.chatHistory) = 7
    /\ Len(prompt.context) = 6
    /\ prompt.context[1] = <<"Student", 2>>
    /\ prompt.context[6] = <<"Teacher", 7>>

(***************************************************************************)
(* The specification of the response normalizer: _clean_json_response      *)
(* called on texts put together from fences, backquotes, whitespace and    *)
(* payload                                                                 *)
(***************************************************************************)
MaxSegments == 4

CleanSegments ==
    {Fence, FenceJson, <<Backquote>>, <<" ">>, Newline, <<"x">>, JsonObjectText}

\* the texts of at most k segments
RECURSIVE SegmentTexts(_)
SegmentTexts(k) ==
    IF k = 0 THEN {<<>>}
    ELSE LET shorter == SegmentTexts(k - 1)
         IN  shorter \cup {t \o g : t \in shorter, g \in CleanSegments}

\* the example of the contract: {"a":1} in a json-tagged fence
JsonFencedExample == FenceJson \o Newline \o JsonObjectText \o Newline \o Fence

CleanTexts == SegmentTexts(MaxSegments) \cup {JsonFencedExample}

\* a call of gemini_service._clean_json_response(text)
CleanJson(t) ==
    /\ pc = "idle"
    /\ req' = [NoReq EXCEPT !.entry = "service", !.op = "_clean_json_response"]
    /\ args' = [NoArgs EXCEPT !.text = t]
    /\ Finish([NoResp EXCEPT !.kind = "result", !.value = CleanJsonResponse(t)], 1)
    /\ UNCHANGED <<env, model, TEACHWISE_AVAILABLE, calls, prompt, callsThis>>

InitClean == Init /\ model = Handle /\ env = KeyNames

NextClean ==
    \/ pc = "idle" /\ \E t \in CleanTexts : CleanJson(t)
    \/ Return

SpecClean == InitClean /\ [][NextClean]_vars

\* the normalizer has returned
Cleaned == pc = "done" /\ req.op = "_clean_json_response"

AllWhitespace(t) == \A i \in 1..Len(t) : t[i] \in Whitespace

\* the length of the fence a trimmed text opens with: the json tag belongs to
\* the fence
LeadLength(s) == IF StartsWith(s, FenceJson) THEN 7 ELSE 3

\* the text is a leading fence, a payload and a trailing fence, possibly
\* surrounded by whitespace
Fenced(t) ==
    LET s == Strip(t)
    IN  StartsWith(s, Fence) /\ EndsWith(s, Fence) /\ Len(s) >= LeadLength(s) + 3

Payload(t) == LET s == Strip(t) IN SubSeq(s, LeadLength(s) + 1, Len(s) - 3)

\* C12: whenever the normalizer has returned for a text that is a leading
\* fence (generic or json-tagged), a payload and a trailing fence, possibly
\* surrounded by whitespace, the result is exactly the payload with its
\* surrounding whitespace trimmed; the json-fenced text of {"a":1} gives {"a":1}.
C12_FencedPayload ==
    /\ (Cleaned /\ Fenced(args.text)) => resp.value = Strip(Payload(args.text))
    /\ (Cleaned /\ args.text = JsonFencedExample) => resp.value = JsonObjectText

C12_Witness ==
    /\ Cleaned
    /\ args.text = JsonFencedExample
    /\ resp.value = JsonObjectText

\* C13: whenever the normalizer has returned for a text that, once trimmed,
\* neither starts nor ends with a fence, the result is the text with only its
\* surrounding whitespace trimmed, and the normalizer applied to the result
\* returns the result.
C13_CleanTextUnchanged ==
    (Cleaned /\ ~StartsWith(Strip(args.text), Fence)
             /\ ~EndsWith(Strip(args.text), Fence)) =>
        /\ resp.value = Strip(args.text)
        /\ CleanJsonResponse(resp.value) = resp.value

C13_Witness ==
    /\ Cleaned
    /\ args.text = <<" ">> \o JsonObjectText \o <<Backquote>> \o Newline
    /\ resp.value = JsonObjectText \o <<Backquote>>

\* what the normalizer may remove in front of its result: whitespace, at most
\* one fence (generic or json-tagged), and, when inner is given, whitespace
\* after the fence
RemovedLead(pre, inner) ==
    LET s == LStrip(pre)
        rest == IF StartsWith(s, FenceJson) THEN SubSeq(s, 8, Len(s))
                ELSE IF StartsWith(s, Fence) THEN SubSeq(s, 4, Len(s))
                ELSE s
    IN  IF inner THEN AllWhitespace(rest) ELSE rest = <<>>

\* what the normalizer may remove behind its result: whitespace when inner is
\* given, at most one fence, and whitespace
RemovedTrail(suf, inner) ==
    LET s == RStrip(suf)
        rest == IF EndsWith(s, Fence) THEN SubSeq(s, 1, Len(s) - 3) ELSE s
    IN  IF inner THEN AllWhitespace(rest) ELSE rest = <<>>

\* the result is one piece of the text, in order, and what is removed in front
\* of it and behind it is of the kind just described
OutermostRemoved(text, result, inner) ==
    \E a \in 0..Len(text) :
        /\ a + Len(result) <= Len(text)
        /\ SubSeq(text, a + 1, a + Len(result)) = result
        /\ RemovedLead(SubSeq(text, 1, a), inner)
        /\ RemovedTrail(SubSeq(text, a + Len(result) + 1, Len(text)), inner)

\* C14 as stated: whenever the normalizer has returned, at most one leading
\* and one trailing fence (and the whitespace outside them) have been removed,
\* and every character between them is in the result, in order.
C14_EveryCharacterKept ==
    Cleaned => OutermostRemoved(args.text, resp.value, FALSE)

\* C14: whenever the normalizer has returned, whether or not the result is
\* JSON, the result is one piece of the text, in order, interior fences
\* included; in front of it at most one fence has been removed and behind it at
\* most one, together with the whitespace outside the fences and the
\* whitespace between a removed fence and the result.
C14_OutermostOnly ==
    Cleaned => OutermostRemoved(args.text, resp.value, TRUE)

C14_Witness ==
    /\ Cleaned
    /\ args.text = FenceJson \o Fence \o <<"x">> \o Fence
    /\ resp.value = Fence \o <<"x">>
    /\ ~JsonLoadsOk(resp.value)

IntegerTraits ==
    {"conceptual_readiness", "metacognitive_awareness", "persistence", "confidence_level"}

CommunicationStyles == {"verbal", "visual", "hands_on"}

\* C17 as stated: whenever generate_scenario has built its prompt, the persona
\* in it has each of the four integer traits in 1..10, 5 when the request gave
\* none, and a communication style among verbal, visual and hands_on, verbal
\* when the request gave none.
C17_PersonaInRange ==
    (pc = "calling" /\ req.op = "generate_scenario") =>
        /\ \A k \in IntegerTraits :
              /\ prompt.persona_traits[k] \in 1..MaxTrait
              /\ k \notin DOMAIN req.studentPersona => prompt.persona_traits[k] = 5
        /\ prompt.persona_traits.communication_style \in CommunicationStyles
        /\ "communication_style" \notin DOMAIN req.studentPersona =>
              prompt.persona_traits.communication_style = "verbal"

(***************************************************************************)
(* The specification of scenario generation: requests with a question, and *)
(* replies that carry a scenario                                           *)
(***************************************************************************)
ScenarioRequests ==
    { r \in HttpRequests("generate_scenario", ScenarioFields)
              \cup DirectCalls("generate_scenario", ScenarioFields) :
        r.question = "What is 1/2 + 1/3?" }

ScenarioReplies ==
    {GatewayRaises}
    \cup {GatewayText(t) : t \in ScenarioTexts}
    \cup {GatewayText(FenceJson \o Newline \o t \o Newline \o Fence) : t \in ScenarioTexts}

InitScenario == Init /\ model = Handle

NextScenario ==
    \/ \E r \in ScenarioRequests : Invoke(r)
    \/ \E g \in ScenarioReplies : GatewayReply(g)
    \/ Return

SpecScenario == InitScenario /\ [][NextScenario]_vars

\* C18 as stated: whenever generate_scenario has returned a scenario as its
\* successful result, the scenario's correctMisconceptionIndex is an index of
\* its misconceptionOptions list.
C18_ValidCorrectIndex ==
    (pc = "done" /\ req.op = "generate_scenario" /\ resp.kind = "result"
                 /\ resp.value \in ScenarioTexts) =>
        LET options == MisconceptionOptionsOf(resp.value)
            index == CorrectMisconceptionIndexOf(resp.value)
        IN  0 <= index /\ index < Len(options)

(***************************************************************************)
(* The specification of the health probe: GET /health on either HTTP entry *)
(* point, between question requests                                        *)
(***************************************************************************)
\* health_check in simple_app.py: os.getenv("GOOGLE_API_KEY") alone is read
RouteHealth(environ) ==
    [status |-> 200, kind |-> "result",
     keys |-> {"status", "version", "api_key", "features"},
     message |-> IF "GOOGLE_API_KEY" \in environ THEN "available" ELSE "missing",
     cause |-> NoExc, value |-> <<>>]

\* do_GET, path /health, in api/index.py: either name is read; ai_ready tells
\* whether gemini_service.model is set
HandlerHealth(environ, available, m) ==
    [status |-> HandlerStatus, kind |-> "result",
     keys |-> {"status", "version", "api_key", "api_key_preview", "ai_ready",
               "teachwise_available", "model_info", "environment_vars"},
     message |-> IF "GOOGLE_API_KEY" \in environ \/ "GEMINI_API_KEY" \in environ
                 THEN "available" ELSE "missing",
     cause |-> NoExc,
     value |-> IF available /\ m # None THEN <<"ai_ready">> ELSE <<>>]

\* GET /health is answered
HealthCheck(e) ==
    /\ pc = "idle"
    /\ e = "serverless" \/ TEACHWISE_AVAILABLE
    /\ req' = [NoReq EXCEPT !.entry = e, !.op = "health"]
    /\ Finish(IF e = "fastapi" THEN RouteHealth(env)
              ELSE HandlerHealth(env, TEACHWISE_AVAILABLE, model), 1)
    /\ UNCHANGED <<env, model, TEACHWISE_AVAILABLE, calls, args, prompt, callsThis>>

HealthRequests ==
    HttpRequests("generate_question", QuestionFields)
    \cup DirectCalls("generate_question", QuestionFields)

NextHealth ==
    \/ \E e \in HttpEntries : HealthCheck(e)
    \/ \E r \in HealthRequests : Invoke(r)
    \/ \E g \in Replies : GatewayReply(g)
    \/ Return

SpecHealth == Init /\ [][NextHealth]_vars

\* C19 as stated: whenever GET /health has been answered, api_key is
\* "available" if a key is set under GOOGLE_API_KEY or GEMINI_API_KEY and
\* "missing" otherwise, so that a service that obtained its model handle from
\* the environment is never reported as having no key.
C19_HealthAgrees ==
    (pc = "done" /\ req.op = "health") =>
        /\ resp.message = (IF env # {} THEN "available" ELSE "missing")
        /\ model = Handle => resp.message = "available"

\* evaluate_session is given a complete scenario whose correctMisconceptionIndex
\* is no index of its misconceptionOptions, a well-formed history, and the
\* service has its model
OutOfRangeCorrectIndex ==
    /\ req.op = "evaluate_session" /\ req.body = "ok"
    /\ TEACHWISE_AVAILABLE /\ model = Handle
    /\ {"student", "misconceptionOptions", "correctMisconceptionIndex"}
          \subseteq DOMAIN req.scenario
    /\ "actualMisconception" \in DOMAIN req.scenario.student
    /\ req.scenario.correctMisconceptionIndex
          \notin 0..(Len(req.scenario.misconceptionOptions) - 1)
    /\ \A i \in 1..Len(req.chatHistory) : WellFormedMessage(req.chatHistory[i])

\* C20 as stated: whenever evaluate_session has ended on a scenario whose
\* correctMisconceptionIndex is out of range, it has ended in an error caused
\* by an index error, without a model call and without an evaluation result.
C20_IndexErrorOnCorrectIndex ==
    (OutOfRangeCorrectIndex /\ pc = "done") =>
        /\ resp.kind = "error"
        /\ resp.cause.type = "IndexError"
        /\ callsThis = 0

\* C20: on a scenario whose correctMisconceptionIndex is out of range,
\* evaluate_session raises an index error exactly when selectedMisconception
\* is no index (negative ones counting from the end) of misconceptionOptions,
\* and then ends in its error response without a model call; otherwise it
\* builds its prompt with the diagnosis marked incorrect, calls the model once,
\* and ends as the model's reply decides.
C20_IndexErrorOnSelection ==
    OutOfRangeCorrectIndex =>
        LET n == Len(req.scenario.misconceptionOptions)
            selected == req.selectedMisconception
            indexable == -n <= selected /\ selected < n
        IN  /\ pc = "calling" =>
                  /\ indexable
                  /\ prompt.correct_diagnosis_json = "false"
            /\ (pc = "done" /\ indexable) =>
                  /\ callsThis = 1
                  /\ resp.cause.type # "IndexError"
            /\ (pc = "done" /\ ~indexable) =>
                  /\ callsThis = 0
                  /\ resp.kind = "error"
                  /\ resp.cause.type = "IndexError"
                  /\ resp.keys \subseteq ErrorKeys

C20_Witness ==
    /\ OutOfRangeCorrectIndex /\ pc = "done"
    /\ req.scenario.correctMisconceptionIndex = 4
    /\ req.selectedMisconception = -1
    /\ resp.kind = "result" /\ callsThis = 1

\* the kind of outcome a response reports
OutcomeKind(x) ==
    IF x.kind = "result" THEN "success"
    ELSE IF Unavailable(x) THEN "unavailable"
    ELSE IF InputError(x) THEN "input error"
    ELSE "upstream failure"

\* the request in flight, sent to the other HTTP entry point
OtherEntry ==
    [req EXCEPT !.entry = IF req.entry = "fastapi" THEN "serverless" ELSE "fastapi"]

\* C21 as stated: whenever an HTTP entry point has handled a request up to
\* the model call or up to its response without one, the other entry point,
\* given the same body and the same model handle, gets as far: it makes the
\* call too, or it ends without a call in the same kind of outcome; bodies with
\* missing fields and unparsable bodies included.
C21_EntryPointsEquivalent ==
    (req.entry \in HttpEntries /\ TEACHWISE_AVAILABLE /\ pc \in {"calling", "done"}) =>
        LET other == OtherEntry
            early == Early(other, TEACHWISE_AVAILABLE, model)
            endsEarly ==
                early # NoResp \/ ServicePre(other.op, model, Args(other)).exc # NoExc
            otherResp ==
                IF early # NoResp THEN early
                ELSE WrapError(other, ServicePre(other.op, model, Args(other)).exc)
        IN  /\ pc = "calling" => ~endsEarly
            /\ (pc = "done" /\ callsThis = 0) =>
                  /\ endsEarly
                  /\ OutcomeKind(otherResp) = OutcomeKind(resp)

\* C22: for a generate_scenario request without a question while the model
\* handle is unset, no model call is made or pending; the service method,
\* testing availability first, ends in the service-unavailable error (503),
\* and the FastAPI route, testing the question before it calls the service,
\* ends in the missing-question error (400) for a body that passes validation.
C22_CheckOrder ==
    (NoQuestion(req) /\ model = None /\ TEACHWISE_AVAILABLE) =>
        /\ pc # "calling"
        /\ pc = "done" => callsThis = 0 /\ calls = 0
        /\ (pc = "done" /\ req.entry = "service") =>
              /\ resp.cause.type = "HTTPException"
              /\ resp.cause.status_code = 503
        /\ (pc = "done" /\ req.entry = "fastapi" /\ req.body = "ok"
                        /\ ~req.personaIllTyped) =>
              /\ resp.cause.type = "HTTPException"
              /\ resp.cause.status_code = 400
              /\ resp.cause.detail = "Question is required for scenario generation"

C22_Witness ==
    /\ pc = "done" /\ NoQuestion(req) /\ req.question = ""
    /\ model = None /\ TEACHWISE_AVAILABLE /\ env = {}
    /\ req.entry = "service" /\ resp.cause.status_code = 503

(***************************************************************************)
(* The specification of the serverless handler's replies: POST on the four *)
(* operation paths and on any other path                                   *)
(***************************************************************************)
\* the else branch of do_POST: the path is none of the four
HandlerNotFound ==
    [status |-> HandlerStatus, kind |-> "error",
     keys |-> {"error", "path", "available_endpoints"},
     message |-> "API endpoint not found", cause |-> NoExc, value |-> <<>>]

\* POST on a path that is none of the four: status and headers are sent, the
\* else branch builds the body and the write at the end of do_POST sends it
PostUnknownPath ==
    /\ pc = "idle"
    /\ req' = [NoReq EXCEPT !.entry = "serverless", !.op = "unknown path"]
    /\ Finish(HandlerNotFound, 1)
    /\ UNCHANGED <<env, model, TEACHWISE_AVAILABLE, calls, args, prompt, callsThis>>

HandlerRequests == {r \in Requests : r.entry = "serverless"}

NextHandler ==
    \/ \E r \in HandlerRequests : Invoke(r)
    \/ \E g \in Replies : GatewayReply(g)
    \/ PostUnknownPath
    \/ Return

SpecHandler == Init /\ [][NextHandler]_vars

\* C23: every reply of the serverless handler to a POST, whether a result,
\* service-unavailable, a failed operation or an unknown path, has status 200,
\* has the key "error" in its body exactly when it reports a failure, and is
\* the one body written for its request.
C23_Always200 ==
    (pc = "done" /\ req.entry = "serverless") =>
        /\ resp.status = 200
        /\ resp.kind \in {"result", "error"}
        /\ resp.kind = "error" <=> "error" \in resp.keys
        /\ writes = 1

C23_Witness ==
    /\ pc = "done" /\ req.entry = "serverless" /\ req.op = "evaluate_session"
    /\ model = Handle /\ callsThis = 0
    /\ resp.cause.type = "IndexError" /\ resp.status = 200
    /\ "error" \in resp.keys /\ writes = 1

\* evaluate_session is called by a request whose body passes validation, and
\* the service has its model
EvaluationWithModel ==
    /\ req.op = "evaluate_session" /\ req.body = "ok"
    /\ TEACHWISE_AVAILABLE /\ model = Handle

\* the scenario has its student and its options
CompleteScenario ==
    /\ {"student", "misconceptionOptions"} \subseteq DOMAIN req.scenario
    /\ "actualMisconception" \in DOMAIN req.scenario.student

\* C24: with the model handle set, evaluate_session on a scenario without its
\* student or its misconceptionOptions, or with selectedMisconception at or
\* beyond the length of misconceptionOptions, never reaches the model call and
\* ends in an error response caused by a key or index error; with a complete
\* scenario, a well-formed history and selectedMisconception in -len..-1 it is
\* not rejected: the prompt carries the option counted from the end, the
\* diagnosis is marked incorrect whenever correctMisconceptionIndex is not
\* negative, and the model is called.
C24_SelectedIndex ==
    EvaluationWithModel =>
        LET sel == req.selectedMisconception
            failing ==
                IF CompleteScenario
                THEN sel >= Len(req.scenario.misconceptionOptions)
                ELSE TRUE
            fromEnd ==
                /\ CompleteScenario
                /\ -Len(req.scenario.misconceptionOptions) <= sel /\ sel <= -1
                /\ \A i \in 1..Len(req.chatHistory) : WellFormedMessage(req.chatHistory[i])
        IN  /\ failing =>
                  /\ pc # "calling"
                  /\ pc = "done" =>
                        /\ callsThis = 0
                        /\ resp.kind = "error"
                        /\ resp.keys \subseteq ErrorKeys
                        /\ resp.cause.type \in {"KeyError", "IndexError"}
            /\ (fromEnd /\ pc = "done") => callsThis = 1
            /\ (fromEnd /\ pc = "calling") =>
                  /\ prompt.teacher_diagnosis =
                        req.scenario.misconceptionOptions[
                            Len(req.scenario.misconceptionOptions) + sel + 1]
                  /\ Get(req.scenario, "correctMisconceptionIndex", 0) >= 0 =>
                        /\ prompt.correct_diagnosis_json = "false"
                        /\ prompt.correct_diagnosis_text \in {"NO", "zh: no"}

C24_Witness ==
    /\ EvaluationWithModel /\ CompleteScenario /\ pc = "calling"
    /\ req.selectedMisconception = -1
    /\ Get(req.scenario, "correctMisconceptionIndex", 0) = 1
    /\ prompt.teacher_diagnosis = "option B"
    /\ prompt.correct_diagnosis_json = "false"

====
